---- MODULE Spec2Model ----
(***************************************************************************)
(* Model of HDBResaleServer (src/Singapore-HDB/HDB-Resale-Price-MCP.py):   *)
(* the query cache, the three-tier retrieval of                            *)
(* fetch_data_by_year_optimized, the tools built on it, the JSON-RPC       *)
(* dispatch of handle_message, the read/dispatch/write loop of             *)
(* _run_server_loop and the restarting supervisor run().                   *)
(*                                                                         *)
(* Records of the remote dataset are not modelled one by one: a page of    *)
(* the upstream is described by the number n of records it holds and the   *)
(* number m of them whose "month" starts with the requested year, and a    *)
(* record list is a sequence of chunks, one per page that contributed.     *)
(***************************************************************************)
EXTENDS Integers, Sequences, FiniteSets, TLC

VARIABLES
    cache,                      \* self.cache: cache key -> record list
    session,                    \* self.session: "none" | "open" | "closed"
    pc,                         \* control location
    via,                        \* who runs the current call: "api" | "rpc"
    tool,                       \* the tool method in progress, "none" for a direct fetch
    q,                          \* arguments of fetch_data_by_year_optimized
    cache_key,                  \* its local cache_key
    all_records,                \* the running tier's local all_records
    offset,                     \* the running tier's local offset
    consecutive_empty_chunks,   \* Tier B's local counter
    attempt,                    \* Tier C's loop variable
    exc,                        \* the exception in flight, "none" when there is none
    ret,                        \* what fetch_data_by_year_optimized returned last
    toolResult,                 \* what the tool method returned last
    restart_count,              \* run()'s local restart_count
    msg,                        \* _run_server_loop's local message
    response,                   \* what handle_message returned
    out,                        \* the response lines written to stdout so far
    nRead,                      \* lines read from stdin so far
    srv,                        \* history of the server (not program state)
    hist,                       \* history of the current retrieval (not program state)
    known,                      \* history: key -> record list of its first successful retrieval
    in1, in2, key1, key2, kdone, \* inputs and outputs of _generate_cache_key
    records,                    \* the record list a tool got from the retrieval
    limit,                      \* the tool's argument limit
    result                      \* the dict the tool returns

vars == <<cache, session, pc, via, tool, q, cache_key, all_records, offset,
          consecutive_empty_chunks, attempt, exc, ret, toolResult, restart_count, msg,
          response, out, nRead, srv, hist, known, in1, in2, key1, key2, kdone,
          records, limit, result>>

serverVars == <<restart_count, msg, response, out, nRead, srv>>

keyVars == <<in1, in2, key1, key2, kdone>>

aggVars == <<records, limit, result>>

pureVars == <<keyVars, aggVars>>

fetchLocals == <<q, cache_key, all_records, offset, consecutive_empty_chunks, attempt>>

----------------------------------------------------------------------------
(* Bounds of the model *)

\* the remote dataset holds at most MaxChunks * 500 records
MaxChunks == 2

\* the small max_records of a direct call
SmallBudget == 50

\* lines the server reads from stdin in one behaviour
MaxLines == 2

\* records in the list a tool aggregates
MaxRecords == 4

----------------------------------------------------------------------------
(* Program constants *)

limitA == 1000

limitB == 500

limitC == 1000

max_empty_chunks == 5

max_attempts == 10

min_viable == 100

budget_price == 10000

budget_areas == 30000

budget_lease == 20000

max_restarts == 5

\* limit: int = 10
default_limit == 10

\* get_flats_by_lease_remaining: min_lease_years: int = 90, limit: int = 50
default_min_lease_years == 90

default_lease_limit == 50

\* HDB leases are typically 99 years
lease_years == 99

----------------------------------------------------------------------------
(* Values *)

Years == {"2023", "2024"}

\* json.dumps orders keys as strings; the field names the tools filter on, in that order
FieldNames == <<"flat_type", "town">>

FieldValues == {"4 ROOM", "BEDOK"}

NoFilters == [none |-> TRUE, items |-> <<>>]

Dict(items) == [none |-> FALSE, items |-> items]

\* insertion-ordered dicts over FieldNames with distinct keys
Dicts ==
    {Dict(<<>>)}
    \cup {Dict(<< <<FieldNames[i], v>> >>) : i \in 1..2, v \in FieldValues}
    \cup {Dict(<< <<FieldNames[i], v>>, <<FieldNames[3 - i], w>> >>) :
              i \in 1..2, v \in FieldValues, w \in FieldValues}

FilterInputs == {NoFilters} \cup Dicts

RECURSIVE SumN(_)
SumN(recs) == IF recs = <<>> THEN 0 ELSE Head(recs).n + SumN(Tail(recs))

\* len(all_records)
RecLen(recs) == SumN(recs)

\* the m records of the page at offset o (page size lim) whose month starts with year
Chunk(o, lim, m, year) == [off |-> o, lim |-> lim, n |-> m, yr |-> year]

----------------------------------------------------------------------------
(* _generate_cache_key *)

Rank(k) == CHOOSE i \in 1..Len(FieldNames) : FieldNames[i] = k

RECURSIVE InsertSorted(_, _)
InsertSorted(item, sorted) ==
    IF sorted = <<>> THEN <<item>>
    ELSE IF Rank(item[1]) <= Rank(Head(sorted)[1]) THEN <<item>> \o sorted
    ELSE <<Head(sorted)>> \o InsertSorted(item, Tail(sorted))

RECURSIVE SortKeys(_)
SortKeys(items) ==
    IF items = <<>> THEN <<>> ELSE InsertSorted(Head(items), SortKeys(Tail(items)))

RECURSIVE JoinItems(_)
JoinItems(items) ==
    IF items = <<>> THEN <<>>
    ELSE <<"\"", Head(items)[1], "\"", ": ", "\"", Head(items)[2], "\"">>
         \o (IF Tail(items) = <<>> THEN <<>> ELSE <<", ">> \o JoinItems(Tail(items)))

\* faulty variant: json.dumps without sort_keys
JsonDumpsUnsorted(items) == <<"{">> \o JoinItems(items) \o <<"}">>

\* json.dumps(d, sort_keys=True), as a sequence of tokens
JsonDumps(items) == <<"{">> \o JoinItems(SortKeys(items)) \o <<"}">>

\* filters or {}
FiltersOrEmpty(filters) == IF filters.none THEN <<>> ELSE filters.items

GenerateCacheKey(year, filters) == <<year, "_">> \o JsonDumps(FiltersOrEmpty(filters))

----------------------------------------------------------------------------
(* The upstream: what one page request (session.get and the decoding of its *)
(* answer) can come back with.  The upstream is free to answer differently  *)
(* each time; it holds at most DataSize records.                            *)

DataSize == MaxChunks * limitB

\* non-200 status, success flag false, asyncio.TimeoutError, any other exception
Failures == {"http", "apifail", "timeout", "other"}

PageSizes(o, lim) == {n \in {0, 1, lim} : o + n <= DataSize}

\* a page of n records, none or all of which are of the requested year
OkPages(o, lim) ==
    UNION {{[kind |-> "ok", n |-> n, m |-> m] : m \in {0, n}} : n \in PageSizes(o, lim)}

Responses(o, lim) == {[kind |-> f, n |-> 0, m |-> 0] : f \in Failures} \cup OkPages(o, lim)

\* all_records.extend(year_records)
Extend(recs, o, lim, m, year) ==
    IF m = 0 THEN recs ELSE Append(recs, Chunk(o, lim, m, year))

----------------------------------------------------------------------------
(* History of the current retrieval *)

NoRet == [done |-> FALSE, recs |-> <<>>]

FreshHist(isKnown) ==
    [asked |-> {}, tried |-> {}, aRet |-> NoRet, bRet |-> NoRet, cRet |-> NoRet,
     aRaised |-> FALSE, aLost |-> <<>>, pagesB |-> <<>>, bStop |-> "none",
     pagesC |-> <<>>, wasKnown |-> isKnown]

Returned(recs) == [done |-> TRUE, recs |-> recs]

----------------------------------------------------------------------------
(* fetch_data_by_year_optimized *)

\* get_session: a session is created when there is none or it is closed (lines 27-30)
GetSession(s) == IF s = "none" \/ s = "closed" THEN "open" ELSE s

\* faulty variant: the cache is never consulted
CacheHitNever(key) == FALSE

\* faulty variant: an entry smaller than the budget is not taken
CacheHitIfEnough(key) == key \in DOMAIN cache /\ RecLen(cache[key]) >= q.max_records

\* if cache_key in self.cache
CacheHit(key) == key \in DOMAIN cache

\* faulty variant: a tier's result is never taken
TierSucceededNever(recs) == FALSE

\* faulty variant: a tier's result is taken even when it is empty
TierSucceededAlways(recs) == TRUE

\* if all_records:
TierSucceeded(recs) == recs # <<>>

\* faulty variant: except clause that lets timeouts through
CatchesNoTimeout(e) == e # "timeout"

\* except Exception: every failure of a page request is an Exception
Catches(e) == e \in Failures

\* while len(all_records) < max_records (line 105)
LoopA(recs) == IF RecLen(recs) < q.max_records THEN "A" ELSE "A_ret"

\* faulty variant: the loop goes on whatever the counter says
LoopBNoCount(recs, c) == IF RecLen(recs) < q.max_records THEN "B" ELSE "B_ret"

\* while len(all_records) < max_records and consecutive_empty_chunks < max_empty_chunks
\* (line 152)
LoopB(recs, c) ==
    IF RecLen(recs) < q.max_records /\ c < max_empty_chunks THEN "B" ELSE "B_ret"

\* for attempt in range(max_attempts) (line 216)
LoopC(a) == IF a < max_attempts THEN "C" ELSE "C_ret"

\* entry: cache_key = self._generate_cache_key(year, filters)
Enter(year, filters, max_records) ==
    /\ q' = [year |-> year, filters |-> filters, max_records |-> max_records]
    /\ cache_key' = GenerateCacheKey(year, filters)
    /\ hist' = FreshHist(GenerateCacheKey(year, filters) \in DOMAIN known)
    /\ pc' = "fetch"
    /\ exc' = "none"
    /\ all_records' = <<>>
    /\ offset' = 0
    /\ consecutive_empty_chunks' = 0
    /\ attempt' = 0

\* lines 51-56: the cache check, then the session and the call of Tier A
CacheCheck ==
    /\ pc = "fetch"
    /\ IF CacheHit(cache_key)
       THEN /\ ret' = [raised |-> FALSE, recs |-> cache[cache_key]]
            /\ pc' = "fetched"
            /\ UNCHANGED <<session, hist>>
       ELSE /\ session' = GetSession(session)
            /\ pc' = LoopA(<<>>)
            /\ hist' = [hist EXCEPT !.tried = @ \cup {"A"}]
            /\ UNCHANGED ret
    /\ UNCHANGED <<cache, via, tool, fetchLocals, exc, toolResult, known, pureVars, serverVars>>

\* faulty variant: the list of the tier left behind is handed to the next one
PopTierKeep ==
    /\ all_records' = all_records
    /\ offset' = 0
    /\ consecutive_empty_chunks' = 0
    /\ attempt' = 0

\* the tier's frame is gone once the tier is left: all_records, offset and the counters
\* are locals of the tier (lines 98-99, 144-147, 212-216)
PopTier ==
    /\ all_records' = <<>>
    /\ offset' = 0
    /\ consecutive_empty_chunks' = 0
    /\ attempt' = 0

\* the tier's success: the entry is written and the list returned (lines 63-66, 75-78, 87-90)
Commit(recs) ==
    /\ cache' = (cache_key :> recs) @@ cache
    /\ known' = IF cache_key \in DOMAIN known THEN known ELSE (cache_key :> recs) @@ known
    /\ ret' = [raised |-> FALSE, recs |-> recs]
    /\ pc' = "fetched"
    /\ PopTier

StartB ==
    /\ pc' = LoopB(<<>>, 0)
    /\ PopTier

StartC ==
    /\ pc' = LoopC(0)
    /\ PopTier

\* an exception leaves fetch_data_by_year_optimized
Escape ==
    /\ ret' = [raised |-> TRUE, recs |-> <<>>]
    /\ pc' = "fetched"
    /\ PopTier

----------------------------------------------------------------------------
(* Tier A: _fetch_with_api_filters *)

\* one iteration of the while loop and the test of its condition (lines 105-138)
TierA_Page ==
    /\ pc = "A"
    /\ \E r \in Responses(offset, limitA) :
         /\ hist' = [hist EXCEPT !.asked = @ \cup {"A"}, !.aRaised = r.kind # "ok",
                                 !.aLost = IF r.kind # "ok" THEN all_records ELSE @]
         /\ IF r.kind # "ok"
            THEN /\ exc' = r.kind
                 /\ pc' = "A_raised"
                 /\ UNCHANGED <<all_records, offset>>
            ELSE /\ exc' = exc
                 /\ IF r.n = 0
                    THEN pc' = "A_ret" /\ UNCHANGED <<all_records, offset>>
                    ELSE /\ all_records' = Extend(all_records, offset, limitA, r.m, q.year)
                         /\ IF r.n < limitA
                            THEN pc' = "A_ret" /\ UNCHANGED offset
                            ELSE pc' = LoopA(all_records') /\ offset' = offset + limitA
    /\ UNCHANGED <<cache, session, via, tool, q, cache_key, consecutive_empty_chunks,
                   attempt, ret, toolResult, known, pureVars, serverVars>>

\* lines 61-66: Tier A returned
TierA_Return ==
    /\ pc = "A_ret"
    /\ IF TierSucceeded(all_records)
       THEN /\ Commit(all_records)
            /\ hist' = [hist EXCEPT !.aRet = Returned(all_records)]
       ELSE /\ StartB
            /\ hist' = [hist EXCEPT !.aRet = Returned(all_records), !.tried = @ \cup {"B"}]
            /\ UNCHANGED <<cache, known, ret>>
    /\ UNCHANGED <<session, via, tool, q, cache_key, exc, toolResult, pureVars, serverVars>>

\* lines 67-68: Tier A raised
TierA_Except ==
    /\ pc = "A_raised"
    /\ exc' = "none"
    /\ IF Catches(exc)
       THEN /\ StartB
            /\ hist' = [hist EXCEPT !.tried = @ \cup {"B"}]
            /\ UNCHANGED ret
       ELSE /\ Escape
            /\ hist' = hist
    /\ UNCHANGED <<cache, session, via, tool, q, cache_key, toolResult, known, pureVars, serverVars>>

----------------------------------------------------------------------------
(* Tier B: _fetch_chunked_with_year_filter *)

\* one iteration of the while loop and the test of its condition (lines 152-206)
TierB_Page ==
    /\ pc = "B"
    /\ \E r \in Responses(offset, limitB) :
         /\ CASE r.kind \in {"http", "apifail", "timeout"} ->
                   \* break (lines 166, 172, 202)
                   /\ pc' = "B_ret"
                   /\ UNCHANGED <<all_records, offset, consecutive_empty_chunks>>
              [] r.kind = "other" \/ (r.kind = "ok" /\ r.n = 0) ->
                   \* lines 176-178 and 204-206
                   /\ consecutive_empty_chunks' = consecutive_empty_chunks + 1
                   /\ offset' = offset + limitB
                   /\ pc' = LoopB(all_records, consecutive_empty_chunks')
                   /\ UNCHANGED all_records
              [] r.kind = "ok" /\ r.n > 0 ->
                   /\ all_records' = Extend(all_records, offset, limitB, r.m, q.year)
                   /\ consecutive_empty_chunks' =
                          IF r.m > 0 THEN 0
                          ELSE consecutive_empty_chunks + 1
                   /\ IF r.n < limitB
                      THEN pc' = "B_ret" /\ UNCHANGED offset
                      ELSE /\ pc' = LoopB(all_records', consecutive_empty_chunks')
                           /\ offset' = offset + limitB
         /\ hist' = [hist EXCEPT
                !.asked = @ \cup {"B"},
                !.pagesB = Append(@, r.kind = "ok" /\ r.m > 0),
                !.bStop = IF pc' = "B" THEN "none"
                          ELSE IF offset' = offset THEN "break" ELSE "loop"]
    /\ UNCHANGED <<cache, session, via, tool, q, cache_key, attempt, exc, ret, toolResult,
                   known, pureVars, serverVars>>

\* lines 73-78: Tier B returned (it catches every Exception of a page itself)
TierB_Return ==
    /\ pc = "B_ret"
    /\ IF TierSucceeded(all_records)
       THEN /\ Commit(all_records)
            /\ hist' = [hist EXCEPT !.bRet = Returned(all_records)]
       ELSE /\ StartC
            /\ hist' = [hist EXCEPT !.bRet = Returned(all_records), !.tried = @ \cup {"C"},
                                    !.pagesB = <<>>, !.bStop = "none"]
            /\ UNCHANGED <<cache, known, ret>>
    /\ UNCHANGED <<session, via, tool, q, cache_key, exc, toolResult, pureVars, serverVars>>

----------------------------------------------------------------------------
(* Tier C: _fetch_limited *)

\* faulty variant: every attempt asks for the first page
OffsetCFirst(a) == 0

\* offset = attempt * limit (line 217)
OffsetC(a) == a * limitC

\* one iteration of the for loop (lines 216-253)
TierC_Page ==
    /\ pc = "C"
    /\ \E r \in Responses(OffsetC(attempt), limitC) :
         /\ hist' = [hist EXCEPT
                !.asked = @ \cup {"C"},
                !.pagesC = Append(@, [off |-> OffsetC(attempt),
                                      failed |-> r.kind # "ok",
                                      hit |-> r.kind = "ok" /\ r.m > 0])]
         /\ IF r.kind # "ok"
            THEN \* continue (lines 231, 235, 253)
                 /\ attempt' = attempt + 1
                 /\ pc' = LoopC(attempt')
                 /\ UNCHANGED all_records
            ELSE IF r.n = 0
                 THEN pc' = "C_ret" /\ UNCHANGED <<all_records, attempt>>
                 ELSE /\ all_records' = Extend(all_records, OffsetC(attempt), limitC, r.m, q.year)
                      /\ IF r.m > 0 /\ RecLen(all_records') >= min_viable
                         THEN pc' = "C_ret" /\ UNCHANGED attempt
                         ELSE attempt' = attempt + 1 /\ pc' = LoopC(attempt')
    /\ UNCHANGED <<cache, session, via, tool, q, cache_key, offset, consecutive_empty_chunks,
                   exc, ret, toolResult, known, pureVars, serverVars>>

\* lines 85-94: Tier C returned
TierC_Return ==
    /\ pc = "C_ret"
    /\ hist' = [hist EXCEPT !.cRet = Returned(all_records), !.pagesC = <<>>]
    /\ IF TierSucceeded(all_records)
       THEN Commit(all_records)
       ELSE /\ ret' = [raised |-> FALSE, recs |-> <<>>]
            /\ pc' = "fetched"
            /\ PopTier
            /\ UNCHANGED <<cache, known>>
    /\ UNCHANGED <<session, via, tool, q, cache_key, exc, toolResult, pureVars, serverVars>>

----------------------------------------------------------------------------
(* The tools built on the retrieval *)

\* str(datetime.now().year) when the module was loaded
DEFAULT_YEAR == "2024"

None == "None"

\* the arguments of a tool call; "bad" stands for a keyword the method does not take
DefaultArgs ==
    [year |-> None, flat_type |-> None, town |-> None, min_lease_years |-> 90, bad |-> FALSE]

FetchTools == {"get_highest_price", "get_highest_transaction_areas"}

NoQuery == [year |-> DEFAULT_YEAR, filters |-> NoFilters, max_records |-> 0]

NoResult == [raised |-> FALSE, recs |-> <<>>]

\* the filters dict a tool builds from its arguments (lines 259-264); the
\* transaction-area tools pass no filters (line 323)
ToolFilters(t, args) ==
    IF t = "get_highest_transaction_areas" THEN NoFilters
    ELSE Dict((IF args.flat_type # None THEN << <<"flat_type", args.flat_type>> >> ELSE <<>>)
              \o (IF args.town # None THEN << <<"town", args.town>> >> ELSE <<>>))

\* year = year or DEFAULT_YEAR (lines 267, 500)
ToolYear(args) == IF args.year = None THEN DEFAULT_YEAR ELSE args.year

\* tool_method(**arguments): a keyword the method does not take, or a required one
\* (year, line 319) that is missing, is a TypeError
ArgsAccepted(t, args) ==
    /\ ~args.bad
    /\ t = "get_highest_transaction_areas" => args.year # None

\* the max_records each tool passes (lines 270, 323, 513)
ToolBudget(t) ==
    IF t = "get_highest_price" THEN budget_price
    ELSE IF t = "get_highest_transaction_areas" THEN budget_areas
    ELSE budget_lease

\* the tool method is entered and calls fetch_data_by_year_optimized
ToolEnter(t, args) ==
    /\ tool' = t
    /\ Enter(ToolYear(args), ToolFilters(t, args), ToolBudget(t))

\* whether the aggregation over the fetched records can raise: max() converts each
\* resale_price with float() (line 276); counting towns cannot fail (lines 329-335)
MayRaise(t) == t = "get_highest_price"

\* lines 272-286 and 325-347: the tool method after the retrieval
ToolReturn ==
    /\ pc = "fetched"
    /\ tool # "none"
    /\ \E raises \in {FALSE, MayRaise(tool)} :
         toolResult' =
            IF ret.raised THEN "failed"
            ELSE IF ret.recs = <<>> THEN "no_records"
            ELSE IF raises THEN "failed"
            ELSE "ok"
    /\ pc' = "tool_done"
    /\ UNCHANGED <<cache, session, via, tool, fetchLocals, exc, ret, hist, known,
                   pureVars, serverVars>>

----------------------------------------------------------------------------
(* JSON-RPC messages *)

NoId == <<>>

Id(n) == <<n>>

NoMsg == [method |-> "none", id |-> NoId, params |-> "map", tool |-> "none", args |-> DefaultArgs]

SimpleMethods == {"initialize", "notifications/initialized", "tools/list", "unknown/method"}

\* tools/call requests: params that are no mapping, each kind of tool, arguments
\* the tool accepts or not ("bad": a keyword the method does not take)
CallShapes ==
    {[params |-> "notmap", tool |-> "none", args |-> DefaultArgs]}
    \cup {[params |-> "map", tool |-> t, args |-> DefaultArgs] :
              t \in {"health_check", "no_such_tool", "get_highest_price",
                     "get_highest_transaction_areas", "get_flats_by_lease_remaining"}}
    \cup {[params |-> "map", tool |-> "get_highest_price", args |-> [DefaultArgs EXCEPT !.bad = TRUE]],
          [params |-> "map", tool |-> "get_highest_transaction_areas",
           args |-> [DefaultArgs EXCEPT !.year = DEFAULT_YEAR]],
          [params |-> "map", tool |-> "get_flats_by_lease_remaining",
           args |-> [DefaultArgs EXCEPT !.min_lease_years = 0]],
          [params |-> "map", tool |-> "get_flats_by_lease_remaining",
           args |-> [DefaultArgs EXCEPT !.year = "abcd"]]}

\* the messages line number n can carry: with the identifier n or with none
Messages(n) ==
    {[method |-> m, id |-> i, params |-> "map", tool |-> "none", args |-> DefaultArgs] :
         m \in SimpleMethods, i \in {NoId, Id(n)}}
    \cup {[method |-> "tools/call", id |-> i, params |-> c.params, tool |-> c.tool,
           args |-> c.args] : c \in CallShapes, i \in {NoId, Id(n)}}

NoResp == [id |-> NoId, kind |-> "none"]

\* a response dict with "result" or with "error"
Resp(id, kind) == [id |-> id, kind |-> kind]

NoSrv ==
    [runs |-> 0, crashes |-> 0, crashesAtEof |-> 0, eof |-> FALSE, fatal |-> FALSE,
     writeFailed |-> FALSE, timedOut |-> FALSE, abandoned |-> FALSE, skipped |-> FALSE]

----------------------------------------------------------------------------
(* handle_message *)

RpcTools == {"get_highest_price", "get_highest_transaction_areas",
             "get_flats_by_lease_remaining"}

\* int(year) (lines 503-506)
YearIsInt(y) == y \in Years

\* faulty variant: the arguments are not validated
LeaseArgsUnchecked(args) == TRUE

\* lines 502-510 of get_flats_by_lease_remaining: the arguments are validated before
\* anything is fetched
LeaseArgsValid(args) ==
    /\ YearIsInt(ToolYear(args))
    /\ args.min_lease_years >= 1
    /\ args.min_lease_years <= 99

\* faulty variant: the error is never reported
ErrorResponseNever(id) == NoResp

\* lines 932-944: the outer except clause of handle_message
ErrorResponse(id) == IF id # NoId THEN Resp(id, "error") ELSE NoResp

\* handle_message up to its return or to the tool's retrieval (lines 700-901)
Handle ==
    /\ pc = "handle"
    /\ CASE msg.method \in {"initialize", "tools/list"} ->
              /\ response' = Resp(msg.id, "result")
              /\ pc' = "respond"
              /\ UNCHANGED <<tool, fetchLocals, exc, toolResult, hist>>
         [] msg.method = "notifications/initialized" ->
              /\ response' = NoResp
              /\ pc' = "respond"
              /\ UNCHANGED <<tool, fetchLocals, exc, toolResult, hist>>
         [] msg.method = "tools/call" /\ msg.params # "map" ->
              \* params.get raises AttributeError (line 858)
              /\ response' = ErrorResponse(msg.id)
              /\ pc' = "respond"
              /\ UNCHANGED <<tool, fetchLocals, exc, toolResult, hist>>
         [] msg.method = "tools/call" /\ msg.params = "map" /\ msg.tool \notin RpcTools ->
              \* health_check, or ValueError("Unknown tool") caught at line 899
              /\ toolResult' = IF msg.tool = "health_check" THEN "healthy" ELSE "unknown_tool"
              /\ response' = Resp(msg.id, "result")
              /\ pc' = "respond"
              /\ UNCHANGED <<tool, fetchLocals, exc, hist>>
         [] msg.method = "tools/call" /\ msg.params = "map" /\ msg.tool \in RpcTools
                /\ ~ArgsAccepted(msg.tool, msg.args) ->
              \* TypeError caught at line 899
              /\ toolResult' = "bad_args"
              /\ response' = Resp(msg.id, "result")
              /\ pc' = "respond"
              /\ UNCHANGED <<tool, fetchLocals, exc, hist>>
         [] msg.method = "tools/call" /\ msg.params = "map" /\ msg.tool \in RpcTools
                /\ ArgsAccepted(msg.tool, msg.args)
                /\ msg.tool = "get_flats_by_lease_remaining" /\ ~LeaseArgsValid(msg.args) ->
              /\ toolResult' = "invalid"
              /\ response' = Resp(msg.id, "result")
              /\ pc' = "respond"
              /\ UNCHANGED <<tool, fetchLocals, exc, hist>>
         [] msg.method = "tools/call" /\ msg.params = "map" /\ msg.tool \in RpcTools
                /\ ArgsAccepted(msg.tool, msg.args)
                /\ (msg.tool = "get_flats_by_lease_remaining" => LeaseArgsValid(msg.args)) ->
              /\ ToolEnter(msg.tool, msg.args)
              /\ UNCHANGED <<response, toolResult>>
         [] OTHER ->
              \* ValueError("Unknown method") (line 930)
              /\ response' = ErrorResponse(msg.id)
              /\ pc' = "respond"
              /\ UNCHANGED <<tool, fetchLocals, exc, toolResult, hist>>
    /\ UNCHANGED <<cache, session, via, ret, restart_count, msg, out, nRead, srv, known, pureVars>>

\* lines 903-914: the tool's result is wrapped into the response
ToolDone ==
    /\ pc = "tool_done"
    /\ via = "rpc"
    /\ response' = Resp(msg.id, "result")
    /\ pc' = "respond"
    /\ q' = NoQuery
    /\ cache_key' = <<>>
    /\ ret' = NoResult
    /\ hist' = FreshHist(FALSE)
    /\ UNCHANGED <<cache, session, via, tool, all_records, offset, consecutive_empty_chunks,
                   attempt, exc, toolResult, restart_count, msg, out, nRead, srv, known,
                   pureVars>>

----------------------------------------------------------------------------
(* _run_server_loop *)

\* faulty variant: the handler never yields to the event loop
AwaitPcsBlocking == {}

\* where a handler is suspended: in a page request or in the sleep after it
AwaitPcs == {"A", "B", "C"}

\* await self.session.close(): it succeeds, or raises and leaves the session
\* closed or not
CloseOutcomes(s) ==
    IF s = "open"
    THEN {[raised |-> FALSE, session |-> "closed"], [raised |-> TRUE, session |-> "open"],
          [raised |-> TRUE, session |-> "closed"]}
    ELSE {[raised |-> FALSE, session |-> s]}

\* faulty variant: the line is put before the lines already written
WriteFirst(resp, ok) == IF ok THEN <<resp>> \o out ELSE out

\* print(...) and sys.stdout.flush(): the line is written, or the write raises
Write(resp, ok) == IF ok THEN Append(out, resp) ELSE out

\* the locals of the request are gone
Forget ==
    /\ tool' = "none"
    /\ q' = NoQuery
    /\ cache_key' = <<>>
    /\ ret' = NoResult
    /\ toolResult' = "none"
    /\ hist' = FreshHist(FALSE)

\* lines 993-995 and 1050-1053: end of input, break, and the finally clause; a normal
\* return makes run() break and log the shutdown (lines 954-956, 980)
ReadEOF ==
    /\ pc = "read"
    /\ \E c \in CloseOutcomes(session) :
         /\ session' = c.session
         /\ pc' = IF c.raised THEN "crashed" ELSE "shutdown"
    /\ srv' = [srv EXCEPT !.eof = TRUE, !.crashesAtEof = IF srv.eof THEN @ ELSE srv.crashes]
    /\ UNCHANGED <<cache, via, tool, fetchLocals, exc, ret, toolResult, restart_count, msg,
                   response, out, nRead, hist, known, pureVars>>

\* faulty variant: a line that cannot be handled is answered with an error
ReadSkipAnswers ==
    /\ pc = "read"
    /\ ~srv.eof
    /\ nRead < MaxLines
    /\ nRead' = nRead + 1
    /\ srv' = [srv EXCEPT !.skipped = TRUE]
    /\ out' = Append(out, Resp(NoId, "error"))
    /\ UNCHANGED <<cache, session, pc, via, tool, fetchLocals, exc, ret, toolResult,
                   restart_count, msg, response, hist, known, pureVars>>

\* lines 997-1012: a blank line, a line that is no JSON, a message without a method;
\* each is a continue
ReadSkip ==
    /\ pc = "read"
    /\ ~srv.eof
    /\ nRead < MaxLines
    /\ nRead' = nRead + 1
    /\ srv' = [srv EXCEPT !.skipped = TRUE]
    /\ UNCHANGED <<cache, session, pc, via, tool, fetchLocals, exc, ret, toolResult,
                   restart_count, msg, response, out, hist, known, pureVars>>

\* readline raises: caught at line 1046, the loop continues
ReadError ==
    /\ pc = "read"
    /\ UNCHANGED vars

\* lines 1003-1019: a message with a method is handed to handle_message; once readline
\* has returned the empty string it keeps returning it
ReadMessage ==
    /\ pc = "read"
    /\ ~srv.eof
    /\ nRead < MaxLines
    /\ nRead' = nRead + 1
    /\ \E m \in Messages(nRead + 1) : msg' = m
    /\ pc' = "handle"
    /\ srv' = [srv EXCEPT !.writeFailed = FALSE, !.timedOut = FALSE, !.abandoned = FALSE]
    /\ UNCHANGED <<cache, session, via, tool, fetchLocals, exc, ret, toolResult,
                   restart_count, response, out, hist, known, pureVars>>

\* lines 1036-1041: the response, if any, is written; a failing write is caught at
\* line 1046
Respond ==
    /\ pc = "respond"
    /\ IF response # NoResp
       THEN \E ok \in BOOLEAN :
              /\ out' = Write(response, ok)
              /\ srv' = [srv EXCEPT !.writeFailed = ~ok]
       ELSE UNCHANGED <<out, srv>>
    /\ pc' = "done"
    /\ UNCHANGED <<cache, session, via, tool, fetchLocals, exc, ret, toolResult,
                   restart_count, msg, response, nRead, hist, known, pureVars>>

\* faulty variant: the cancelled retrieval still stores what it has accumulated
AfterCancelStores(c, key, recs) == IF recs # <<>> THEN (key :> recs) @@ c ELSE c

\* the cache once wait_for has cancelled the handler: the CancelledError raised at the
\* await is no Exception, so no except clause of the tiers or of lines 67, 79 and 91
\* keeps it and the writes of lines 65, 77 and 89 are not reached
AfterCancel(c, key, recs) == c

\* lines 1020-1034: the 120 s timer of wait_for fires; the handler is cancelled
TimeoutOuter ==
    /\ pc \in AwaitPcs
    /\ via = "rpc"
    /\ IF msg.id # NoId
       THEN \E ok \in BOOLEAN :
              /\ out' = Write(Resp(msg.id, "error"), ok)
              /\ srv' = [srv EXCEPT !.writeFailed = ~ok, !.timedOut = TRUE,
                                     !.abandoned = all_records # <<>>]
       ELSE /\ out' = out
            /\ srv' = [srv EXCEPT !.timedOut = TRUE, !.abandoned = all_records # <<>>]
    /\ pc' = "done"
    /\ PopTier
    /\ exc' = "none"
    /\ q' = NoQuery
    /\ cache_key' = <<>>
    /\ hist' = FreshHist(FALSE)
    /\ cache' = AfterCancel(cache, cache_key, all_records)
    /\ UNCHANGED <<session, via, tool, ret, toolResult, restart_count, msg, response,
                   nRead, known, pureVars>>

\* lines 882-888: the 60 s timer around get_flats_by_lease_remaining fires
TimeoutInner ==
    /\ pc \in AwaitPcs
    /\ via = "rpc"
    /\ tool = "get_flats_by_lease_remaining"
    /\ toolResult' = "timed_out"
    /\ pc' = "tool_done"
    /\ PopTier
    /\ exc' = "none"
    /\ q' = NoQuery
    /\ cache_key' = <<>>
    /\ hist' = FreshHist(FALSE)
    /\ cache' = AfterCancel(cache, cache_key, all_records)
    /\ srv' = [srv EXCEPT !.abandoned = all_records # <<>>]
    /\ UNCHANGED <<session, via, tool, ret, restart_count, msg, response, out, nRead,
                   known, pureVars>>

\* the loop goes back to reading (continue / end of the loop body)
NextRequest ==
    /\ pc = "done"
    /\ pc' = "read"
    /\ Forget
    /\ msg' = NoMsg
    /\ response' = NoResp
    /\ srv' = [srv EXCEPT !.writeFailed = FALSE, !.timedOut = FALSE, !.abandoned = FALSE]
    /\ UNCHANGED <<cache, session, via, all_records, offset, consecutive_empty_chunks,
                   attempt, exc, restart_count, out, nRead, known, pureVars>>

\* KeyboardInterrupt or a cancellation (BaseException) while the loop reads or awaits a
\* handler: no except clause of the loop keeps it (lines 1043-1048), the finally clause
\* runs, and an exception raised there by close() replaces it
Interrupt ==
    /\ via = "rpc"
    /\ pc \in {"read"} \cup AwaitPcs
    /\ \E c \in CloseOutcomes(session) :
         /\ session' = c.session
         /\ pc' = IF c.raised THEN "crashed" ELSE "killed"
    /\ PopTier
    /\ Forget
    /\ exc' = "none"
    /\ msg' = NoMsg
    /\ response' = NoResp
    /\ srv' = [srv EXCEPT !.writeFailed = FALSE, !.timedOut = FALSE, !.abandoned = FALSE]
    /\ UNCHANGED <<cache, via, restart_count, out, nRead, known, pureVars>>

----------------------------------------------------------------------------
(* run: the supervisor *)

\* line 952-954: the loop is (re-)entered
RunLoop ==
    /\ pc = "run"
    /\ restart_count < max_restarts
    /\ pc' = "read"
    /\ srv' = [srv EXCEPT !.runs = @ + 1]
    /\ UNCHANGED <<cache, session, via, tool, fetchLocals, exc, ret, toolResult,
                   restart_count, msg, response, out, nRead, hist, known, pureVars>>

\* lines 958-978: _run_server_loop raised an Exception
RunExcept ==
    /\ pc = "crashed"
    /\ restart_count' = restart_count + 1
    /\ srv' = [srv EXCEPT !.crashes = @ + 1, !.fatal = ~(restart_count + 1 < max_restarts)]
    /\ IF restart_count + 1 < max_restarts
       THEN /\ \E c \in CloseOutcomes(session) :
                 IF c.raised
                 THEN \* the cleanup's except clause (lines 972-973)
                      session' = c.session /\ cache' = cache
                 ELSE session' = "none" /\ cache' = <<>>
            /\ pc' = "run"
       ELSE /\ pc' = "shutdown"
            /\ UNCHANGED <<cache, session>>
    /\ known' = <<>>
    /\ UNCHANGED <<via, tool, fetchLocals, exc, ret, toolResult, msg, response, out, nRead,
                   hist, pureVars>>

----------------------------------------------------------------------------
(* The aggregations of the tools over a retrieved record list *)

\* a key the record does not have
Absent == "<absent>"

\* resale_price as the upstream sends it (a string), or something float() rejects
PriceValues == {"100", "1e2", "250", "abc", Absent}

TownValues == {"BEDOK", "YISHUN", Absent}

\* float(x["resale_price"]) raises KeyError or ValueError
FloatRaises(v) == v \notin {"100", "1e2", "250"}

\* float(v) where it is defined
Float(v) == CASE v = "100" -> 100 [] v = "1e2" -> 100 [] v = "250" -> 250

\* record.get("town", "Unknown")
TownOf(r) == IF r.town = Absent THEN "Unknown" ELSE r.town

\* faulty variant: the comparison of the other extremum
BetterReversed(a, b, dir) == dir * a < dir * b

\* max (dir = 1) and min (dir = -1) replace the element they hold only by one whose key
\* is strictly greater, strictly smaller
Better(a, b, dir) == dir * a > dir * b

\* max(records, key=...) / min(records, key=...) from position i on, b the element held
RECURSIVE ExtremumFrom(_, _, _, _)
ExtremumFrom(recs, i, b, dir) ==
    IF i > Len(recs) THEN b
    ELSE IF Better(Float(recs[i].resale_price), Float(b.resale_price), dir)
         THEN ExtremumFrom(recs, i + 1, recs[i], dir)
         ELSE ExtremumFrom(recs, i + 1, b, dir)

Extremum(recs, dir) == ExtremumFrom(recs, 2, recs[1], dir)

\* lines 272-286 (dir = 1) and 303-317 (dir = -1): the tool after the retrieval
PriceResult(recs, dir) ==
    IF recs = <<>> THEN [kind |-> "no_records"]
    ELSE IF \E i \in DOMAIN recs : FloatRaises(recs[i].resale_price)
         THEN [kind |-> "failed"]
         ELSE [kind |-> "ok",
               price |-> Float(Extremum(recs, dir).resale_price),
               details |-> Extremum(recs, dir),
               total_records_found |-> Len(recs)]

\* town_counts after the loop of lines 330-332: the towns in the order of their first
\* record, each with its count
RECURSIVE TownCounts(_)
TownCounts(recs) ==
    IF recs = <<>> THEN <<>>
    ELSE LET before == TownCounts(SubSeq(recs, 1, Len(recs) - 1))
             t == TownOf(recs[Len(recs)])
         IN  IF \E i \in DOMAIN before : before[i][1] = t
             THEN [i \in DOMAIN before |->
                       IF before[i][1] = t THEN <<t, before[i][2] + 1>> ELSE before[i]]
             ELSE Append(before, <<t, 1>>)

\* faulty variant: an item goes before the items of equal count
StaysBeforeStrict(e, x, dir) == dir * e[2] > dir * x[2]

\* sorted() is stable, with reverse=True too: an item stays behind the earlier items
\* whose count is not worse than its own
StaysBefore(e, x, dir) == dir * e[2] >= dir * x[2]

RECURSIVE InsertItem(_, _, _)
InsertItem(x, sorted, dir) ==
    IF sorted = <<>> THEN <<x>>
    ELSE IF StaysBefore(Head(sorted), x, dir)
         THEN <<Head(sorted)>> \o InsertItem(x, Tail(sorted), dir)
         ELSE <<x>> \o sorted

\* sorted(town_counts.items(), key=lambda x: x[1], reverse=...): dir = 1 is descending
RECURSIVE SortedTowns(_, _)
SortedTowns(items, dir) ==
    IF items = <<>> THEN <<>>
    ELSE InsertItem(items[Len(items)], SortedTowns(SubSeq(items, 1, Len(items) - 1), dir), dir)

\* sorted_towns[:limit]
Slice(items, lim) ==
    IF lim >= 0 THEN SubSeq(items, 1, IF lim < Len(items) THEN lim ELSE Len(items))
    ELSE SubSeq(items, 1, Len(items) + lim)

\* lines 325-344 (dir = 1) and 355-374 (dir = -1): the tool after the retrieval
AreasResult(recs, lim, dir) ==
    IF recs = <<>> THEN [kind |-> "no_records"]
    ELSE [kind |-> "ok",
          total_transactions |-> Len(recs),
          areas |-> Slice(SortedTowns(TownCounts(recs), dir), lim)]

----------------------------------------------------------------------------
(* The lease tools over a retrieved record list *)

\* lease_commence_date as the upstream sends it (a string), or missing
LeaseValues == {"1924", "1925", "1990", "1990.0", "2024", "2025", "0", Absent}

\* int(year)
YearNumber(y) == IF y = "2023" THEN 2023 ELSE 2024

\* float(str(v)) truncated by int(): defined on every value but the missing one
IntOfFloat(v) ==
    CASE v = "1924" -> 1924 [] v = "1925" -> 1925 [] v = "1990" -> 1990
      [] v = "1990.0" -> 1990 [] v = "2024" -> 2024 [] v = "2025" -> 2025 [] v = "0" -> 0

\* int(v) raises ValueError on the spelling of a float
IntRaises(v) == v = "1990.0"

\* int(record.get("lease_commence_date", 0)) where it does not raise
IntOrZero(v) == IF v = Absent THEN 0 ELSE IntOfFloat(v)

\* line 547 and line 646
LeaseRemaining(cy, lcy) == lease_years - (cy - lcy)

\* faulty variant: the computed value is not tested
OutOfRangeNever(lr) == FALSE

\* line 550: lease_remaining < 0 or lease_remaining > 99
OutOfRange(lr) == lr < 0 \/ lr > lease_years

\* lines 532-581, one record: "error" (error_count += 1), "flat" (appended), "skip"
LeaseClass(r, cy, min) ==
    IF r.lease_commence_date = Absent THEN "error"
    ELSE LET lcy == IntOfFloat(r.lease_commence_date)
         IN  IF lcy <= 0 \/ lcy > cy THEN "error"
             ELSE IF OutOfRange(LeaseRemaining(cy, lcy)) THEN "error"
             ELSE IF LeaseRemaining(cy, lcy) >= min THEN "flat"
             ELSE "skip"

\* flat_info (lines 561-573), with the position of its record
FlatInfo(recs, i, cy) ==
    [record |-> i,
     lease_commence_date |-> IntOfFloat(recs[i].lease_commence_date),
     lease_remaining_years |-> LeaseRemaining(cy, IntOfFloat(recs[i].lease_commence_date))]

\* qualifying_flats after the loop of lines 525-581
RECURSIVE QualifyingFlats(_, _, _, _)
QualifyingFlats(recs, n, cy, min) ==
    IF n = 0 THEN <<>>
    ELSE IF LeaseClass(recs[n], cy, min) = "flat"
         THEN Append(QualifyingFlats(recs, n - 1, cy, min), FlatInfo(recs, n, cy))
         ELSE QualifyingFlats(recs, n - 1, cy, min)

\* error_count after the loop
ErrorCount(recs, cy, min) ==
    Cardinality({i \in DOMAIN recs : LeaseClass(recs[i], cy, min) = "error"})

RECURSIVE InsertFlat(_, _)
InsertFlat(x, sorted) ==
    IF sorted = <<>> THEN <<x>>
    ELSE IF Head(sorted).lease_remaining_years >= x.lease_remaining_years
         THEN <<Head(sorted)>> \o InsertFlat(x, Tail(sorted))
         ELSE <<x>> \o sorted

\* qualifying_flats.sort(key=lambda x: x["lease_remaining_years"], reverse=True)
RECURSIVE SortedFlats(_)
SortedFlats(flats) ==
    IF flats = <<>> THEN <<>>
    ELSE InsertFlat(flats[Len(flats)], SortedFlats(SubSeq(flats, 1, Len(flats) - 1)))

\* lines 515-603: get_flats_by_lease_remaining after the retrieval
LeaseResult(recs, year, min, lim) ==
    IF recs = <<>> THEN [kind |-> "no_records"]
    ELSE [kind |-> "ok",
          search_criteria |-> [min_lease_years |-> min, year |-> year],
          total_qualifying_flats |-> Len(QualifyingFlats(recs, Len(recs), YearNumber(year), min)),
          total_records_searched |-> Len(recs),
          records_with_errors |-> ErrorCount(recs, YearNumber(year), min),
          flats |-> Slice(SortedFlats(QualifyingFlats(recs, Len(recs), YearNumber(year), min)),
                          lim)]

\* lines 642-667: the record is counted when int() does not raise and the year is > 0
Counted(r) ==
    /\ ~(r.lease_commence_date # Absent /\ IntRaises(r.lease_commence_date))
    /\ IntOrZero(r.lease_commence_date) > 0

\* lease_data after the loop of lines 642-667
RECURSIVE LeaseData(_, _, _)
LeaseData(recs, n, cy) ==
    IF n = 0 THEN <<>>
    ELSE IF Counted(recs[n])
         THEN Append(LeaseData(recs, n - 1, cy),
                     LeaseRemaining(cy, IntOrZero(recs[n].lease_commence_date)))
         ELSE LeaseData(recs, n - 1, cy)

\* the key of lease_ranges a value is counted under (lines 649-660)
Bucket(lr) ==
    IF lr >= 90 THEN "90+ years"
    ELSE IF lr >= 80 THEN "80-89 years"
    ELSE IF lr >= 70 THEN "70-79 years"
    ELSE IF lr >= 60 THEN "60-69 years"
    ELSE IF lr >= 50 THEN "50-59 years"
    ELSE "Less than 50 years"

Buckets == {"90+ years", "80-89 years", "70-79 years", "60-69 years", "50-59 years",
            "Less than 50 years"}

RECURSIVE InsertValue(_, _)
InsertValue(x, sorted) ==
    IF sorted = <<>> THEN <<x>>
    ELSE IF Head(sorted) <= x THEN <<Head(sorted)>> \o InsertValue(x, Tail(sorted))
    ELSE <<x>> \o sorted

\* lease_data.sort()
RECURSIVE SortedValues(_)
SortedValues(d) ==
    IF d = <<>> THEN <<>> ELSE InsertValue(Head(d), SortedValues(Tail(d)))

RECURSIVE SumValues(_)
SumValues(d) == IF d = <<>> THEN 0 ELSE Head(d) + SumValues(Tail(d))

\* lines 625-694: get_lease_statistics after the retrieval; the average is returned as
\* the sum it is computed from
StatisticsResult(recs, year) ==
    IF recs = <<>> THEN [kind |-> "no_records"]
    ELSE LET d == LeaseData(recs, Len(recs), YearNumber(year))
             sd == SortedValues(d)
         IN  [kind |-> "ok",
              search_criteria |-> [year |-> year],
              total_records |-> Len(recs),
              valid_lease_records |-> Len(d),
              lease_distribution |->
                  [b \in Buckets |-> Cardinality({i \in DOMAIN d : Bucket(d[i]) = b})],
              total_lease_remaining |-> SumValues(d),
              median_lease_remaining |-> IF d = <<>> THEN 0 ELSE sd[(Len(d) \div 2) + 1],
              min_lease_remaining |-> IF d = <<>> THEN 0 ELSE sd[1],
              max_lease_remaining |-> IF d = <<>> THEN 0 ELSE sd[Len(d)]]

----------------------------------------------------------------------------
(* The methods called directly, one call after the other *)

ApiFilters == {NoFilters, Dict(<<>>)}

Budgets == {SmallBudget, limitA}

ApiArgs == {[DefaultArgs EXCEPT !.year = y] : y \in {None, "2023"}}

ApiFetch ==
    /\ pc = "idle"
    /\ \E year \in Years, filters \in ApiFilters, b \in Budgets : Enter(year, filters, b)
    /\ tool' = "none"
    /\ via' = "api"
    /\ ret' = NoResult
    /\ toolResult' = "none"
    /\ UNCHANGED <<cache, session, known, pureVars, serverVars>>

ApiTool ==
    /\ pc = "idle"
    /\ \E t \in FetchTools, args \in ApiArgs : ArgsAccepted(t, args) /\ ToolEnter(t, args)
    /\ via' = "api"
    /\ ret' = NoResult
    /\ toolResult' = "none"
    /\ UNCHANGED <<cache, session, known, pureVars, serverVars>>

ApiReturn ==
    /\ via = "api"
    /\ \/ pc = "fetched" /\ tool = "none"
       \/ pc = "tool_done"
    /\ pc' = "idle"
    /\ Forget
    /\ UNCHANGED <<cache, session, via, all_records, offset, consecutive_empty_chunks,
                   attempt, exc, known, pureVars, serverVars>>

Retrieval ==
    \/ CacheCheck
    \/ TierA_Page \/ TierA_Return \/ TierA_Except
    \/ TierB_Page \/ TierB_Return
    \/ TierC_Page \/ TierC_Return

InitObject ==
    /\ cache = <<>>
    /\ session = "none"
    /\ tool = "none"
    /\ q = NoQuery
    /\ cache_key = <<>>
    /\ all_records = <<>>
    /\ offset = 0
    /\ consecutive_empty_chunks = 0
    /\ attempt = 0
    /\ exc = "none"
    /\ ret = NoResult
    /\ toolResult = "none"
    /\ hist = FreshHist(FALSE)
    /\ known = <<>>
    /\ restart_count = 0
    /\ msg = NoMsg
    /\ response = NoResp
    /\ out = <<>>
    /\ nRead = 0
    /\ srv = NoSrv

NoAggResult == [kind |-> "none"]

InitNoAgg ==
    /\ records = <<>>
    /\ limit = default_limit
    /\ result = NoAggResult

InitNoKeys ==
    /\ InitNoAgg
    /\ in1 = [year |-> DEFAULT_YEAR, filters |-> NoFilters]
    /\ in2 = [year |-> DEFAULT_YEAR, filters |-> NoFilters]
    /\ key1 = <<>>
    /\ key2 = <<>>
    /\ kdone = FALSE

InitFetch == InitObject /\ InitNoKeys /\ pc = "idle" /\ via = "api"

NextFetch == ApiFetch \/ ApiTool \/ ApiReturn \/ ToolReturn \/ Retrieval

\* a fresh HDBResaleServer whose methods are called one after the other
SpecFetch == InitFetch /\ [][NextFetch]_vars

----------------------------------------------------------------------------
(* _generate_cache_key applied to two queries *)

KeyInputs == {[year |-> y, filters |-> f] : y \in Years, f \in FilterInputs}

InitKey ==
    /\ InitObject
    /\ pc = "key"
    /\ via = "api"
    /\ in1 \in KeyInputs
    /\ in2 \in KeyInputs
    /\ key1 = <<>>
    /\ key2 = <<>>
    /\ kdone = FALSE
    /\ InitNoAgg

ComputeKeys ==
    /\ pc = "key"
    /\ ~kdone
    /\ key1' = GenerateCacheKey(in1.year, in1.filters)
    /\ key2' = GenerateCacheKey(in2.year, in2.filters)
    /\ kdone' = TRUE
    /\ UNCHANGED <<cache, session, pc, via, tool, fetchLocals, exc, ret, toolResult,
                   hist, known, in1, in2, serverVars, aggVars>>

NextKey == ComputeKeys

SpecKey == InitKey /\ [][NextKey]_vars

----------------------------------------------------------------------------
(* The tools' aggregations applied to a record list *)

\* the records differ in their town or in their resale_price
RecordValues ==
    {[town |-> t, resale_price |-> "100"] : t \in TownValues}
    \cup {[town |-> "BEDOK", resale_price |-> v] : v \in PriceValues}

RecordLists == UNION {[1..n -> RecordValues] : n \in 0..MaxRecords}

\* the limits a caller passes: the schema of tools/list allows 1..50 (line 778)
Limits == {1, 2, default_limit}

InitAgg ==
    /\ InitObject
    /\ pc = "agg"
    /\ via = "api"
    /\ in1 = [year |-> DEFAULT_YEAR, filters |-> NoFilters]
    /\ in2 = [year |-> DEFAULT_YEAR, filters |-> NoFilters]
    /\ key1 = <<>>
    /\ key2 = <<>>
    /\ kdone = FALSE
    /\ records \in RecordLists
    /\ limit = default_limit
    /\ result = NoAggResult

AggDone(t, res) ==
    /\ pc = "agg"
    /\ pc' = "agg_done"
    /\ tool' = t
    /\ result' = res
    /\ UNCHANGED <<cache, session, via, fetchLocals, exc, ret, toolResult, hist, known,
                   keyVars, records, serverVars>>

get_highest_price == AggDone("get_highest_price", PriceResult(records, 1)) /\ limit' = limit

get_lowest_price == AggDone("get_lowest_price", PriceResult(records, -1)) /\ limit' = limit

get_highest_transaction_areas ==
    \E l \in Limits :
        /\ limit' = l
        /\ AggDone("get_highest_transaction_areas", AreasResult(records, l, 1))

get_lowest_transaction_areas ==
    \E l \in Limits :
        /\ limit' = l
        /\ AggDone("get_lowest_transaction_areas", AreasResult(records, l, -1))

NextAgg ==
    \/ get_highest_price \/ get_lowest_price
    \/ get_highest_transaction_areas \/ get_lowest_transaction_areas

SpecAgg == InitAgg /\ [][NextAgg]_vars

----------------------------------------------------------------------------
(* The lease tools applied to a record list *)

\* the records differ in their lease_commence_date
LeaseRecordValues == {[lease_commence_date |-> v] : v \in LeaseValues}

LeaseRecordLists == UNION {[1..n -> LeaseRecordValues] : n \in 0..MaxRecords}

MinLeaseYears == {1, default_min_lease_years, lease_years}

LeaseLimits == {1, default_lease_limit}

InitLease ==
    /\ InitObject
    /\ pc = "agg"
    /\ via = "api"
    /\ in1 = [year |-> DEFAULT_YEAR, filters |-> NoFilters]
    /\ in2 = [year |-> DEFAULT_YEAR, filters |-> NoFilters]
    /\ key1 = <<>>
    /\ key2 = <<>>
    /\ kdone = FALSE
    /\ records \in LeaseRecordLists
    /\ limit = default_lease_limit
    /\ result = NoAggResult

get_flats_by_lease_remaining ==
    \E y \in Years, m \in MinLeaseYears, l \in LeaseLimits :
        /\ limit' = l
        /\ AggDone("get_flats_by_lease_remaining", LeaseResult(records, y, m, l))

get_lease_statistics ==
    \E y \in Years :
        /\ limit' = limit
        /\ AggDone("get_lease_statistics", StatisticsResult(records, y))

NextLease == get_flats_by_lease_remaining \/ get_lease_statistics

SpecLease == InitLease /\ [][NextLease]_vars

----------------------------------------------------------------------------
(* The server: main() constructs the HDBResaleServer and awaits run() *)

Init == InitObject /\ InitNoKeys /\ pc = "run" /\ via = "rpc"

ServerLoop ==
    \/ ReadEOF \/ ReadSkip \/ ReadError \/ ReadMessage
    \/ Handle \/ ToolReturn \/ ToolDone \/ Respond
    \/ TimeoutOuter \/ TimeoutInner \/ NextRequest \/ Interrupt

Next == RunLoop \/ RunExcept \/ ServerLoop \/ Retrieval

Spec == Init /\ [][Next]_vars

\* what the event loop guarantees: code that is ready to run runs (the steps between two
\* awaits), and the 120 s timer of wait_for fires when the handler stays suspended; the
\* upstream, stdin and signals owe nothing
Fairness ==
    /\ WF_vars(Handle)
    /\ WF_vars(CacheCheck \/ TierA_Return \/ TierA_Except \/ TierB_Return \/ TierC_Return)
    /\ WF_vars(ToolReturn)
    /\ WF_vars(ToolDone)
    /\ WF_vars(Respond)
    /\ WF_vars(TimeoutOuter)
    /\ WF_vars(NextRequest)

SpecLive == Spec /\ Fairness

----------------------------------------------------------------------------
(* Properties of the retrieval (SpecFetch) *)

\* C1 - Tier ordering: on a cache miss for which Tier A returns a non-empty record
\* list, no page request is issued by Tier B or Tier C, neither tier is entered, and
\* fetch_data_by_year_optimized returns exactly Tier A's list.
C1_TierOrdering ==
    (hist.aRet.done /\ hist.aRet.recs # <<>>) =>
        /\ hist.asked \cap {"B", "C"} = {}
        /\ hist.tried = {"A"}
        /\ pc \in {"fetched", "tool_done"}
        /\ ret = [raised |-> FALSE, recs |-> hist.aRet.recs]

C1_Witness ==
    /\ pc = "fetched"
    /\ ~hist.wasKnown
    /\ hist.aRet.done
    /\ Len(hist.aRet.recs) = 1
    /\ ret.recs = hist.aRet.recs

\* C2 - Tier fallback: when a page request of Tier A fails (Tier A raises), Tier B is
\* attempted; when Tier B returns no record, Tier C is attempted; when Tier C returns no
\* record either, the retrieval returns the empty list, which the tool reports as "No
\* records found"; no exception ever leaves fetch_data_by_year_optimized.
C2_TierFallback ==
    /\ ~ret.raised
    /\ (hist.aRaised /\ pc # "A_raised") => "B" \in hist.tried
    /\ (hist.aRet.done /\ hist.aRet.recs = <<>>) => "B" \in hist.tried
    /\ (hist.bRet.done /\ hist.bRet.recs = <<>>) => "C" \in hist.tried
    /\ (hist.cRet.done /\ hist.cRet.recs = <<>>) =>
           /\ pc \in {"fetched", "tool_done"}
           /\ ret = NoResult
           /\ pc = "tool_done" => toolResult = "no_records"

C2_Witness ==
    /\ pc = "tool_done"
    /\ tool = "get_highest_price"
    /\ hist.aRaised
    /\ hist.asked = {"A", "B", "C"}
    /\ hist.bRet.done
    /\ hist.cRet.done
    /\ toolResult = "no_records"

\* C3 - Cache idempotence: a retrieval for a query whose earlier retrieval succeeded
\* returns the record list of that first success and issues no page request, whatever
\* the upstream would answer now.
C3_CacheIdempotence ==
    hist.wasKnown =>
        /\ hist.asked = {}
        /\ hist.tried = {}
        /\ pc \in {"fetch", "fetched", "tool_done"}
        /\ pc \in {"fetched", "tool_done"} =>
               ret = [raised |-> FALSE, recs |-> known[cache_key]]

C3_Witness ==
    /\ pc = "fetched"
    /\ hist.wasKnown
    /\ ret.recs # <<>>
    /\ ret.recs = known[cache_key]
    /\ Cardinality(DOMAIN known) = 2

\* the filters as an unordered set of field/value pairs; None is the empty set
PairSet(filters) == {FiltersOrEmpty(filters)[i] : i \in DOMAIN FiltersOrEmpty(filters)}

\* C4 - Cache key equality: two queries get the same cache key if and only if their
\* years are equal and their filters are equal as sets of field/value pairs, whatever
\* the insertion order of the fields, None and {} being the same empty set.
C4_CacheKeyEquality ==
    kdone =>
        ((key1 = key2) <=>
             (in1.year = in2.year /\ PairSet(in1.filters) = PairSet(in2.filters)))

C4_Witness ==
    /\ kdone
    /\ key1 = key2
    /\ Len(in1.filters.items) = 2
    /\ in1.filters.items # in2.filters.items

\* C5 - Budget respect: a cache-miss retrieval returns at most max_records records.
C5_BudgetRespect ==
    (pc = "fetched" /\ ~hist.wasKnown) => RecLen(ret.recs) <= q.max_records

\* the empty pages at the end of Tier B's page history
RECURSIVE TrailingEmpty(_)
TrailingEmpty(p) ==
    IF p = <<>> THEN 0
    ELSE IF p[Len(p)] THEN 0
    ELSE 1 + TrailingEmpty(SubSeq(p, 1, Len(p) - 1))

Matches(p) == Cardinality({i \in DOMAIN p : p[i]})

\* C6 - Consecutive-empty abort: Tier B asks for another page only while fewer than 5
\* pages in a row were without a record of the year, its counter being the length of
\* that run (0 after a page with a match); when its loop ends below the budget without
\* a break, exactly 5 such pages end the history; it raises nothing and returns the
\* records of the matching pages.
C6_ConsecutiveEmptyAbort ==
    /\ pc = "B" =>
           /\ TrailingEmpty(hist.pagesB) < max_empty_chunks
           /\ consecutive_empty_chunks = TrailingEmpty(hist.pagesB)
    /\ (pc = "B_ret" /\ hist.bStop = "loop" /\ RecLen(all_records) < q.max_records) =>
           TrailingEmpty(hist.pagesB) = max_empty_chunks
    /\ pc \in {"B", "B_ret"} =>
           /\ exc = "none"
           /\ Len(all_records) = Matches(hist.pagesB)
    /\ (hist.bRet.done /\ hist.bRet.recs # <<>>) =>
           /\ Len(hist.bRet.recs) = Matches(hist.pagesB)
           /\ ret = [raised |-> FALSE, recs |-> hist.bRet.recs]

C6_Witness ==
    /\ pc = "B_ret"
    /\ hist.bStop = "loop"
    /\ RecLen(all_records) < q.max_records
    /\ all_records # <<>>
    /\ Len(hist.pagesB) > max_empty_chunks + 1
    /\ TrailingEmpty(hist.pagesB) = max_empty_chunks

----------------------------------------------------------------------------
(* Properties of the server (Spec) *)

\* C7 - Restart clears cache: whenever run() is about to (re-)enter _run_server_loop,
\* the cache is empty.
C7_RestartClearsCache == pc = "run" => cache = <<>>

\* C8 - Bounded restarts: restart_count never exceeds 5, and when the supervisor gives
\* up the loop has been re-run after each of 5 crashes, that is run 6 times.
C8_BoundedRestarts ==
    /\ restart_count <= max_restarts
    /\ srv.fatal => srv.runs = max_restarts + 1

\* C9 - End-of-input shutdown: once the loop has read end-of-input the server is shut
\* down and stays so, and the restart counter is what it was.
C9_EofShutdown == srv.eof => (pc = "shutdown" /\ srv.crashes = srv.crashesAtEof)

\* the response lines written so far that carry the identifier id
Lines(id) == Cardinality({i \in DOMAIN out : out[i].id = id})

\* C10 - Exactly one response per identified request: when the loop is done with a
\* request that carries an identifier, and no write to stdout failed, exactly one
\* response line carries that identifier.
C10_OneResponse ==
    (pc = "done" /\ msg.id # NoId /\ ~srv.writeFailed) => Lines(msg.id) = 1

\* C11 - Notifications get no response: no response line is ever written for a request
\* that carries no identifier.
C11_NoResponseWithoutId == \A i \in DOMAIN out : out[i].id # NoId

\* the positions of the loop at which no request is in progress
IdlePcs == {"run", "read", "crashed", "killed", "shutdown"}

\* C12 - Response ordering: requests are handled one at a time and their responses are
\* written in the order in which the requests were read: a line is read only when no
\* request is in progress, a request that was just read has no response yet, every
\* response line with an identifier belongs to a line already read, and the identifiers
\* of the lines written increase.
C12_ResponseOrdering ==
    /\ pc \in IdlePcs => (msg = NoMsg /\ response = NoResp)
    /\ (pc = "handle" /\ msg.id # NoId) => (msg.id = Id(nRead) /\ Lines(msg.id) = 0)
    /\ \A i \in DOMAIN out : out[i].id # NoId => out[i].id[1] <= nRead
    /\ \A i, j \in DOMAIN out :
           (i < j /\ out[i].id # NoId /\ out[j].id # NoId) => out[i].id[1] < out[j].id[1]

C12_Witness ==
    /\ pc = "done"
    /\ srv.timedOut
    /\ out = <<Resp(Id(1), "error"), Resp(Id(2), "error")>>
    /\ msg.method = "tools/call"

\* a request is being handled
HandlerPcs == {"handle", "fetch", "A", "A_ret", "A_raised", "B", "B_ret", "C", "C_ret",
               "fetched", "tool_done", "respond"}

ReportedTimedOut == srv.timedOut \/ toolResult = "timed_out"

\* C14 - Abandoned retrieval is discarded: the step that reports a request as timed out
\* leaves the cache as it is, and so does every step taken for that request afterwards;
\* the request then ends like any other and the next line is read.
C14_AbandonedDiscarded ==
    [][/\ (pc \in AwaitPcs /\ pc' \in {"done", "tool_done"}) => cache' = cache
       /\ (ReportedTimedOut /\ pc \in {"tool_done", "respond", "done"}) =>
              /\ cache' = cache
              /\ pc' \in {"respond", "done", "read"}]_vars

C14_Witness ==
    /\ pc = "done"
    /\ ReportedTimedOut
    /\ srv.abandoned
    /\ cache = <<>>

\* a step of the handling of a request: handle_message, the tool, the retrieval, the
\* writing of the response
HandlingStep == Handle \/ Retrieval \/ ToolReturn \/ ToolDone \/ Respond

\* the results by which a tool call reports an exception or a rejected argument
ErrorResults == {"failed", "bad_args", "unknown_tool", "invalid"}

\* C15 - Failure containment: a tools/call whose params are no mapping gets the error
\* response of its identifier; a tool call that raised (rejected arguments, unknown
\* tool, aggregation or retrieval error) gets a result response carrying the error; and
\* no step of the handling of a request leaves the loop, crashes it or changes the
\* restart counter.
C15_FailureContainment ==
    /\ [](/\ ~ret.raised
          /\ (pc = "respond" /\ msg.method = "tools/call" /\ msg.params # "map"
                  /\ msg.id # NoId) => response = Resp(msg.id, "error")
          /\ (pc = "respond" /\ toolResult \in ErrorResults) =>
                 response = Resp(msg.id, "result"))
    /\ [][HandlingStep =>
              /\ pc' \in HandlerPcs \cup {"done"}
              /\ restart_count' = restart_count
              /\ srv'.crashes = srv.crashes]_vars

C15_Witness ==
    /\ pc = "done"
    /\ toolResult = "failed"
    /\ Lines(msg.id) = 1
    /\ restart_count = 0
    /\ nRead = 2

\* the request is one the caller got wrong: an unknown method, an unknown tool, a lease
\* search whose min_lease_years is outside 1..99 or whose year is no integer
CallerError(m) ==
    \/ m.method \notin {"initialize", "notifications/initialized", "tools/list", "tools/call"}
    \/ /\ m.method = "tools/call"
       /\ m.params = "map"
       /\ \/ m.tool = "no_such_tool"
          \/ /\ m.tool = "get_flats_by_lease_remaining"
             /\ ~m.args.bad
             /\ (m.args.min_lease_years \notin 1..99 \/ m.args.year = "abcd")

\* C16 - Caller errors are terminal and side-effect free: handle_message answers a
\* caller error in one step, with an error response or an error result, and that step
\* leaves the session and the cache as they are; no page request is issued for it.
C16_CallerErrors ==
    /\ []((pc \in HandlerPcs \cup {"done"} /\ CallerError(msg)) =>
              (pc \in {"handle", "respond", "done"} /\ hist.asked = {} /\ hist.tried = {}))
    /\ [][(pc = "handle" /\ CallerError(msg)) =>
              /\ pc' = "respond"
              /\ session' = session
              /\ cache' = cache
              /\ \/ response' = ErrorResponse(msg.id) /\ msg.method # "tools/call"
                 \/ response' = Resp(msg.id, "result")
                      /\ toolResult' \in {"unknown_tool", "invalid"}]_vars

C16_Witness ==
    /\ pc = "respond"
    /\ msg.tool = "get_flats_by_lease_remaining"
    /\ msg.args.year = "abcd"
    /\ toolResult = "invalid"
    /\ session = "none"
    /\ nRead = 1

\* C17 (as stated) - Cache and larger budgets: a retrieval whose budget is larger than the number of
\* records of the entry cached for its key is treated as a miss, that is, Tier A is
\* entered for it.
C17_LargerBudgetMisses ==
    (pc = "fetched" /\ hist.wasKnown /\ RecLen(ret.recs) < q.max_records) =>
        "A" \in hist.tried

\* C17 (amended) - Cache and larger budgets: the cache key is made of the year and the
\* filters only, and a retrieval whose budget is larger than the number of records of
\* the entry cached for its key is a cache hit all the same: no tier is entered, no page
\* request is issued and the cached list is returned.
C17_LargerBudgetHits ==
    /\ pc \in HandlerPcs \ {"handle", "respond"} =>
           cache_key = GenerateCacheKey(q.year, q.filters)
    /\ (hist.wasKnown /\ RecLen(known[cache_key]) < q.max_records) =>
           /\ hist.asked = {}
           /\ hist.tried = {}
           /\ pc \in {"fetch", "fetched", "tool_done"}
           /\ pc # "fetch" => ret.recs = known[cache_key]

C17_Witness ==
    /\ pc = "fetched"
    /\ tool = "get_highest_transaction_areas"
    /\ hist.wasKnown
    /\ q.max_records = budget_areas
    /\ RecLen(ret.recs) < budget_price

----------------------------------------------------------------------------
(* Properties of the aggregations (SpecAgg) *)

PriceTools == {"get_highest_price", "get_lowest_price"}

AreaTools == {"get_highest_transaction_areas", "get_lowest_transaction_areas"}

\* 1 for the tools of the highest, -1 for the tools of the lowest
DirOf(t) == IF t \in {"get_highest_price", "get_highest_transaction_areas"} THEN 1 ELSE -1

\* the positions of the records whose resale_price is a number
UsableAt(recs) == {i \in DOMAIN recs : recs[i].resale_price \in {"100", "1e2", "250"}}

\* C18 - Extremum ignores unusable values: when some records have a missing or
\* non-numeric resale_price and at least one has a usable one, the price tools succeed
\* and return the extremum over the usable records.
C18_ExtremumIgnoresUnusable ==
    (pc = "agg_done" /\ tool \in PriceTools
         /\ UsableAt(records) # {} /\ UsableAt(records) # DOMAIN records) =>
        /\ result.kind = "ok"
        /\ result.details \in {records[i] : i \in UsableAt(records)}
        /\ \A i \in UsableAt(records) :
               DirOf(tool) * result.price >= DirOf(tool) * Float(records[i].resale_price)

\* C19 - Extremum correctness: over a non-empty record list whose prices are all
\* numeric, get_highest_price returns a record of the list whose price is >= that of
\* every record (get_lowest_price: <=), the price being that record's, and
\* total_records_found is the length of the list; over an empty list both return the
\* "No records found" error result.
C19_ExtremumCorrectness ==
    (pc = "agg_done" /\ tool \in PriceTools) =>
        /\ records = <<>> => result = [kind |-> "no_records"]
        /\ (records # <<>> /\ UsableAt(records) = DOMAIN records) =>
               /\ result.kind = "ok"
               /\ \E i \in DOMAIN records : result.details = records[i]
               /\ result.price = Float(result.details.resale_price)
               /\ \A i \in DOMAIN records :
                      DirOf(tool) * result.price
                          >= DirOf(tool) * Float(records[i].resale_price)
               /\ result.total_records_found = Len(records)

C19_Witness ==
    /\ pc = "agg_done"
    /\ tool = "get_highest_price"
    /\ Len(records) = 3
    /\ records[1].resale_price = "100"
    /\ records[2].resale_price = "250"
    /\ records[3].resale_price = "1e2"
    /\ result.kind = "ok"
    /\ result.price = 250

\* the number of records of a town, and the position of its first record
CountOf(recs, t) == Cardinality({k \in DOMAIN recs : TownOf(recs[k]) = t})

FirstOf(recs, t) ==
    CHOOSE k \in DOMAIN recs :
        TownOf(recs[k]) = t /\ \A j \in 1..(k - 1) : TownOf(recs[j]) # t

TownsOf(recs) == {TownOf(recs[k]) : k \in DOMAIN recs}

\* group <<t, c>> ranks before group <<u, d>>: a better count, or the same count and an
\* earlier first record
RanksBefore(recs, t, u, dir) ==
    \/ dir * CountOf(recs, t) > dir * CountOf(recs, u)
    \/ CountOf(recs, t) = CountOf(recs, u) /\ FirstOf(recs, t) < FirstOf(recs, u)

RECURSIVE SumCounts(_)
SumCounts(items) == IF items = <<>> THEN 0 ELSE Head(items)[2] + SumCounts(Tail(items))

\* C20 - Group-and-rank: over a non-empty record list the transaction-area tools return
\* total_transactions = the number of records and min(limit, number of towns) groups,
\* each a town of the list with the number of its records (the counts of all groups
\* adding up to total_transactions), ordered by count, descending for the highest and
\* ascending for the lowest, groups of equal count in the order of their first record,
\* and no group left out ranks before a group returned.
C20_GroupAndRank ==
    (pc = "agg_done" /\ tool \in AreaTools /\ records # <<>>) =>
        LET a == result.areas
            n == Cardinality(TownsOf(records))
        IN  /\ result.kind = "ok"
            /\ result.total_transactions = Len(records)
            /\ Len(a) = IF limit < n THEN limit ELSE n
            /\ \A i \in DOMAIN a :
                   a[i][1] \in TownsOf(records) /\ a[i][2] = CountOf(records, a[i][1])
            /\ \A i, j \in DOMAIN a :
                   i < j => RanksBefore(records, a[i][1], a[j][1], DirOf(tool))
            /\ \A t \in TownsOf(records) :
                   (\A i \in DOMAIN a : a[i][1] # t) =>
                       \A i \in DOMAIN a : RanksBefore(records, a[i][1], t, DirOf(tool))
            /\ Len(a) = n => SumCounts(a) = result.total_transactions

C20_Witness ==
    /\ pc = "agg_done"
    /\ tool = "get_highest_transaction_areas"
    /\ limit = 2
    /\ Len(records) = 3
    /\ records[3].town = "BEDOK"
    /\ result.kind = "ok"
    /\ result.areas = << <<"YISHUN", 1>>, <<"Unknown", 1>> >>

----------------------------------------------------------------------------
(* Further properties of the retrieval (SpecFetch) *)

\* the offsets of Tier C's pages that had a record of the year
RECURSIVE HitOffsets(_)
HitOffsets(p) ==
    IF p = <<>> THEN <<>>
    ELSE IF Head(p).hit THEN <<Head(p).off>> \o HitOffsets(Tail(p))
    ELSE HitOffsets(Tail(p))

\* the list of the last tier that returned
LastReturned ==
    IF hist.cRet.done THEN hist.cRet.recs
    ELSE IF hist.bRet.done THEN hist.bRet.recs
    ELSE hist.aRet.recs

\* C22 - Retrieval outcome comes from a single tier: the list a tier accumulates holds
\* the matching pages of that tier's own requests and nothing else (nothing of a tier
\* that raised or returned empty before it), and the list returned on a cache miss is
\* the list of the one tier that returned non-empty, the same list being the cache
\* entry; every tier before it returned nothing or raised.
C22_SingleTierOutcome ==
    /\ pc \in {"A", "A_ret", "A_raised"} =>
           \A i \in DOMAIN all_records : all_records[i].lim = limitA
    /\ pc \in {"B", "B_ret"} =>
           /\ Len(all_records) = Matches(hist.pagesB)
           /\ \A i \in DOMAIN all_records : all_records[i].lim = limitB
    /\ pc \in {"C", "C_ret"} =>
           [i \in DOMAIN all_records |-> all_records[i].off] = HitOffsets(hist.pagesC)
    /\ (pc = "fetched" /\ hist.tried # {} /\ ret.recs # <<>>) =>
           /\ ret.recs = LastReturned
           /\ cache_key \in DOMAIN cache
           /\ cache[cache_key] = ret.recs
           /\ hist.bRet.done => hist.aRet.recs = <<>>
           /\ hist.cRet.done => hist.bRet.recs = <<>>

C22_Witness ==
    /\ pc = "fetched"
    /\ hist.aRaised
    /\ hist.aLost # <<>>
    /\ hist.bRet.done
    /\ hist.bRet.recs # <<>>
    /\ ret.recs = hist.bRet.recs
    /\ cache[cache_key] = hist.bRet.recs
    /\ \A i \in DOMAIN ret.recs : ret.recs[i].lim = limitB

\* C23 - Tier B tolerates page failures: every page request of Tier B that fails (as
\* every page without a record of the year) is counted as one empty page, so that the
\* counter is the number of such pages since the last page with a match.
C23_FailedPagesCounted ==
    pc \in {"B", "B_ret"} => consecutive_empty_chunks = TrailingEmpty(hist.pagesB)

\* C24 - Tier C is a bounded best-effort fetch: at most 10 page requests, the k-th
\* (from 0) at offset k*1000 whatever came before, a failed attempt being followed by
\* the next one, and no request once at least 100 records are accumulated; the loop is
\* left before the tenth request only on a page that was answered.
C24_TierCBounded ==
    /\ Len(hist.pagesC) <= max_attempts
    /\ \A k \in DOMAIN hist.pagesC : hist.pagesC[k].off = (k - 1) * 1000
    /\ pc = "C" =>
           /\ Len(hist.pagesC) = attempt
           /\ attempt < max_attempts
           /\ RecLen(all_records) < min_viable
    /\ (pc = "C_ret" /\ hist.pagesC # <<>> /\ Len(hist.pagesC) < max_attempts) =>
           /\ ~hist.pagesC[Len(hist.pagesC)].failed
           /\ hist.pagesC[Len(hist.pagesC)].hit => RecLen(all_records) >= min_viable

C24_Witness ==
    /\ pc = "C_ret"
    /\ Len(hist.pagesC) = max_attempts
    /\ hist.pagesC[1].hit
    /\ hist.pagesC[2].failed
    /\ all_records # <<>>

\* C27 - Cache content invariant: every cache entry is a non-empty list of records of
\* the year of its key; a retrieval whose three tiers produce nothing writes no entry,
\* and a retrieval that found no entry for its key has started at Tier A.
C27_CacheContent ==
    /\ \A k \in DOMAIN cache :
           /\ cache[k] # <<>>
           /\ \A i \in DOMAIN cache[k] : cache[k][i].n > 0 /\ cache[k][i].yr = k[1]
    /\ (pc = "fetched" /\ hist.cRet.done /\ hist.cRet.recs = <<>>) =>
           cache_key \notin DOMAIN cache
    /\ pc \in {"A", "A_ret", "A_raised", "B", "B_ret", "C", "C_ret"} =>
           /\ cache_key \notin DOMAIN cache
           /\ "A" \in hist.tried

C27_Witness ==
    /\ pc = "fetched"
    /\ hist.cRet.done
    /\ hist.cRet.recs = <<>>
    /\ ret.recs = <<>>
    /\ cache # <<>>
    /\ cache_key \notin DOMAIN cache

\* C29 - Retrieval terminates: Tier A is bounded by its budget loop, that is, it asks
\* for a page only while the records already asked for are fewer than the budget.
C29_TierABoundedByBudget == pc = "A" => offset < q.max_records

----------------------------------------------------------------------------
(* Further properties of the server (Spec) *)

\* C25 - I/O-layer failures reach the supervisor: when the writing of a response has
\* raised, the dispatch loop has been left with the exception (for the supervisor to
\* count a restart).
C25_WriteFailureEscapes == srv.writeFailed => pc = "crashed"

\* C28 - Cache entries are write-once between restarts: a step never replaces, extends
\* or removes an existing entry, except the supervisor's clear after a crash, which
\* removes all entries at once.
C28_WriteOnce ==
    [][\A k \in DOMAIN cache :
           \/ k \in DOMAIN cache' /\ cache'[k] = cache[k]
           \/ pc = "crashed" /\ cache' = <<>>]_vars

C28_Witness ==
    /\ nRead = 2
    /\ pc = "fetched"
    /\ hist.wasKnown
    /\ hist.tried = {}
    /\ cache_key \in DOMAIN cache
    /\ cache[cache_key] = known[cache_key]
    /\ ret.recs = cache[cache_key]
    /\ srv.crashes = 0

\* C30 - Malformed input is skipped: the step that reads a line which is blank, is no
\* JSON or has no method writes nothing, asks for no page, leaves the cache, the
\* session and the restart counter as they are, and leaves the loop reading the next
\* line.
C30_MalformedSkipped ==
    [][(pc = "read" /\ nRead' = nRead + 1 /\ msg' = NoMsg) =>
           /\ pc' = "read"
           /\ srv'.skipped
           /\ out' = out
           /\ cache' = cache
           /\ session' = session
           /\ restart_count' = restart_count
           /\ hist' = hist
           /\ srv'.runs = srv.runs
           /\ srv'.crashes = srv.crashes]_vars

C30_Witness ==
    /\ srv.skipped
    /\ nRead = 2
    /\ pc = "done"
    /\ msg.tool = "get_highest_price"
    /\ msg.id = Id(2)
    /\ out = <<Resp(Id(2), "result")>>
    /\ cache # <<>>
    /\ srv.crashes = 0

----------------------------------------------------------------------------
(* Properties of the lease tools (SpecLease) *)

\* the lease remaining of record i as the claims compute it
Computed(recs, i, year) ==
    lease_years - (YearNumber(year) - IntOfFloat(recs[i].lease_commence_date))

\* C21 - Derived-metric discard: over a record list whose lease_commence_date values are
\* all present and numeric, records_with_errors is the number of records whose computed
\* lease remaining is outside [0, 99], no flat returned comes from such a record, and
\* every flat returned has lease_remaining_years in [min_lease_years, 99].
C21_DerivedMetricDiscard ==
    (pc = "agg_done" /\ tool = "get_flats_by_lease_remaining" /\ records # <<>>
         /\ \A i \in DOMAIN records : records[i].lease_commence_date # Absent) =>
        LET y == result.search_criteria.year
            min == result.search_criteria.min_lease_years
        IN  /\ result.kind = "ok"
            /\ result.records_with_errors =
                   Cardinality({i \in DOMAIN records :
                                    Computed(records, i, y) \notin 0..lease_years})
            /\ \A k \in DOMAIN result.flats :
                   /\ result.flats[k].record \in DOMAIN records
                   /\ Computed(records, result.flats[k].record, y) \in 0..lease_years
                   /\ result.flats[k].lease_remaining_years
                          = Computed(records, result.flats[k].record, y)
                   /\ result.flats[k].lease_remaining_years \in min..lease_years

C21_Witness ==
    /\ pc = "agg_done"
    /\ tool = "get_flats_by_lease_remaining"
    /\ Len(records) = 4
    /\ \A i \in DOMAIN records : records[i].lease_commence_date # Absent
    /\ result.kind = "ok"
    /\ result.records_with_errors = 2
    /\ Len(result.flats) = 1
    /\ result.total_qualifying_flats = 2

\* C26 - Lease statistics discard out-of-range values: valid_lease_records counts only
\* records whose computed lease remaining is within [0, 99], so the minimum and the
\* maximum reported are within [0, 99], and the bucket counts add up to
\* valid_lease_records.
C26_StatisticsInRange ==
    (pc = "agg_done" /\ tool = "get_lease_statistics" /\ result.kind = "ok") =>
        /\ result.min_lease_remaining \in 0..lease_years
        /\ result.max_lease_remaining \in 0..lease_years
        /\ result.valid_lease_records <=
               Cardinality({i \in DOMAIN records :
                                /\ records[i].lease_commence_date # Absent
                                /\ Computed(records, i, result.search_criteria.year)
                                       \in 0..lease_years})

====
